---- MODULE Spec2Model ----
(***************************************************************************)
(* A model of myLint.py: the Violation record, the Checker visitors        *)
(* (SetDuplicateItemChecker, Unused_Variable_In_Scope_Checker,             *)
(* Unused_Variable_Checker) and the Linter driver.                         *)
(*                                                                         *)
(* A syntax tree is a sequence of node records in document (pre-) order;   *)
(* node i's parent is an earlier index, 0 for the root.  An ast node is    *)
(* compared and hashed by identity, so a node reference is the pair of     *)
(* the parse that produced the tree and the node's index in it.            *)
(***************************************************************************)
EXTENDS Naturals, Integers, Sequences, FiniteSets, Bags, TLC

VARIABLES
    tree,        \* the parsed tree (<<>> while there is none)
    parseNo,     \* how many trees this process has parsed: the identity of `tree`
    violations,  \* checker -> its Checker.violations (a Python set)
    pc,          \* where Linter.run stands
    todo,        \* the checkers the loop of Linter.run has still to take
    cur,         \* the checker the loop is at ("" outside the loop)
    toPrint,     \* the violations print_violations has still to print
    out,         \* the lines printed by the current call of Linter.run
    started,     \* the checkers whose visit the current run has started
    runs,        \* the calls of Linter.run made by this process
    src,         \* the source text the current run reads
    prevSrc,     \* the source text of the previous execution's run
    prevOut,     \* what the previous execution printed
    execs        \* the executions of main() started

vars == <<tree, parseNo, violations, pc, todo, cur, toPrint, out, started,
          runs, src, prevSrc, prevOut, execs>>

(***************************************************************************)
(* Bounds of the model.                                                    *)
(***************************************************************************)
MaxElts == 5
MaxScopeNodes == 5
MaxRuns == 2
MaxExecs == 2

(***************************************************************************)
(* Syntax trees.                                                           *)
(***************************************************************************)
Names == {"x", "y"}

NoValue == [ty |-> "none", v |-> 0]

\* The literal constants of the model: 1, 2, 3, True and '1'.
Values == {[ty |-> "int", v |-> 1], [ty |-> "int", v |-> 2], [ty |-> "int", v |-> 3],
           [ty |-> "bool", v |-> 1], [ty |-> "str", v |-> 1]}

Node(kind, parent, id, ctx, value) ==
    [kind |-> kind, parent |-> parent, id |-> id, ctx |-> ctx, value |-> value]

ModuleNode == Node("Module", 0, "", "", NoValue)

\* Python's == on the constants: bool is a subclass of int, so True == 1;
\* a str equals only the same str.
PyEq(a, b) ==
    IF a.ty = "str" \/ b.ty = "str" THEN a = b ELSE a.v = b.v

\* repr() of a constant, as the !r conversion of the f-string gives it.
Repr(val) ==
    CASE val.ty = "bool" -> (IF val.v = 1 THEN "True" ELSE "False")
      [] val.ty = "int"  -> (CASE val.v = 0 -> "0" [] val.v = 1 -> "1"
                               [] val.v = 2 -> "2" [] val.v = 3 -> "3"
                               [] OTHER -> "n")
      [] val.ty = "str"  -> (CASE val.v = 1 -> "'1'" [] OTHER -> "'s'")
      [] OTHER -> "None"

Idx(t) == [k \in 1..Len(t) |-> k]

\* The children of node i, in written order.
Children(t, i) == SelectSeq(Idx(t), LAMBDA j : t[j].parent = i)

RECURSIVE Ancestors(_, _)
Ancestors(t, i) ==
    IF t[i].parent = 0 THEN {} ELSE {t[i].parent} \cup Ancestors(t, t[i].parent)

\* The nodes of the subtree rooted at s.
Subtree(t, s) == {i \in 1..Len(t) : i = s \/ s \in Ancestors(t, i)}

\* A reference to node i of the tree produced by parse p.
Ref(p, i) == [tree |-> p, idx |-> i]

(***************************************************************************)
(* ast.NodeVisitor: visit(node) calls the method visit_<kind> when the     *)
(* visitor has one and generic_visit otherwise; generic_visit visits the   *)
(* children in order.  A handler that does not call generic_visit ends the *)
(* descent.  VisitOrder is the sequence of nodes visit() is called on,     *)
(* norec being the kinds whose handler does not descend.                   *)
(***************************************************************************)
MethodName(kind) ==
    CASE kind = "Module" -> "visit_Module"
      [] kind = "FunctionDef" -> "visit_FunctionDef"
      [] kind = "ClassDef" -> "visit_ClassDef"
      [] kind = "Set" -> "visit_Set"
      [] kind = "Name" -> "visit_Name"
      [] kind = "Constant" -> "visit_Constant"
      [] OTHER -> "visit_"

RECURSIVE VisitOrder(_, _, _)
RECURSIVE VisitKids(_, _, _)
VisitOrder(t, i, norec) ==
    <<i>> \o (IF t[i].kind \in norec THEN <<>> ELSE VisitKids(t, Children(t, i), norec))
VisitKids(t, kids, norec) ==
    IF kids = <<>> THEN <<>>
    ELSE VisitOrder(t, Head(kids), norec) \o VisitKids(t, Tail(kids), norec)

(***************************************************************************)
(* Violation and Checker.violations.                                       *)
(***************************************************************************)
Violation(node, message) == [node |-> node, message |-> message]

\* list.append in place of set.add.
SetAddNoDedup(s, v) == s (+) SetToBag({v})

\* set.add: an element equal to one already held is not added again.
SetAdd(s, v) == IF BagIn(v, s) THEN s ELSE s (+) SetToBag({v})

(***************************************************************************)
(* The checkers main() registers, named by their issue codes.              *)
(***************************************************************************)
Checkers == {"W001", "W002"}

NoViolations == [c \in Checkers |-> EmptyBag]

(***************************************************************************)
(* SetDuplicateItemChecker.                                                *)
(***************************************************************************)
DuplicateMessage(value) == <<"Set contains duplicate item: ", Repr(value)>>

\* `value in seen_values`, by Python's equality.
InSeen(seen, value) == \E w \in seen : PyEq(w, value)

\* The loop of visit_Set over the elements still to scan.
RECURSIVE SetLoop(_, _, _, _, _)
SetLoop(t, p, elts, seen_values, viol) ==
    IF elts = <<>> THEN viol
    ELSE LET element == Head(elts)
             value == t[element].value
         IN  IF t[element].kind # "Constant"
             THEN SetLoop(t, p, Tail(elts), seen_values, viol)
             ELSE IF InSeen(seen_values, value)
                  THEN SetLoop(t, p, Tail(elts), seen_values,
                               SetAdd(viol, Violation(Ref(p, element), DuplicateMessage(value))))
                  ELSE SetLoop(t, p, Tail(elts), seen_values \cup {value}, viol)

\* visit_Set with the membership test taken after the value is added.
visit_Set_AddFirst(t, p, node, viol) ==
    LET RECURSIVE Loop(_, _, _)
        Loop(elts, seen, acc) ==
            IF elts = <<>> THEN acc
            ELSE LET element == Head(elts)
                     value == t[element].value
                 IN  IF t[element].kind # "Constant"
                     THEN Loop(Tail(elts), seen, acc)
                     ELSE Loop(Tail(elts), seen \cup {value},
                               SetAdd(acc, Violation(Ref(p, element), DuplicateMessage(value))))
    IN  Loop(Children(t, node), {}, viol)

visit_Set(t, p, node, viol) == SetLoop(t, p, Children(t, node), {}, viol)

\* SetDuplicateItemChecker.visit(tree): visit_Set is its only handler, and it
\* does not call generic_visit.
RECURSIVE SDC_Fold(_, _, _, _)
SDC_Fold(t, p, order, viol) ==
    IF order = <<>> THEN viol
    ELSE SDC_Fold(t, p, Tail(order),
                  IF MethodName(t[Head(order)].kind) = "visit_Set"
                  THEN visit_Set(t, p, Head(order), viol)
                  ELSE viol)

SDC_visit(t, p, viol) == SDC_Fold(t, p, VisitOrder(t, 1, {"Set"}), viol)

(***************************************************************************)
(* Unused_Variable_In_Scope_Checker: the tracker of one scope.  Its state  *)
(* is the two dictionaries, as functions on the keys they hold.            *)
(***************************************************************************)
EmptyDict == [k \in {} |-> FALSE]

NewTracker == [unused_names |-> EmptyDict, name_nodes |-> EmptyDict]

DictSet(d, k, val) == [x \in DOMAIN d \cup {k} |-> IF x = k THEN val ELSE d[x]]

\* visit_Name with a write marking the name unused whatever was seen before.
visit_Name_Reset(st, t, p, node) ==
    LET var_name == t[node].id
    IN  IF t[node].ctx = "Store"
        THEN [unused_names |-> DictSet(st.unused_names, var_name, TRUE),
              name_nodes |-> IF var_name \notin DOMAIN st.name_nodes
                             THEN DictSet(st.name_nodes, var_name, Ref(p, node))
                             ELSE st.name_nodes]
        ELSE [st EXCEPT !.unused_names = DictSet(st.unused_names, var_name, FALSE)]

visit_Name(st, t, p, node) ==
    LET var_name == t[node].id
    IN  IF t[node].ctx = "Store"
        THEN [unused_names |-> IF var_name \notin DOMAIN st.unused_names
                               THEN DictSet(st.unused_names, var_name, TRUE)
                               ELSE st.unused_names,
              name_nodes |-> IF var_name \notin DOMAIN st.name_nodes
                             THEN DictSet(st.name_nodes, var_name, Ref(p, node))
                             ELSE st.name_nodes]
        ELSE [st EXCEPT !.unused_names = DictSet(st.unused_names, var_name, FALSE)]

\* The tracker's visit over the nodes of `order`, visit_Name its only handler.
RECURSIVE TrackerFold(_, _, _, _)
TrackerFold(t, p, order, st) ==
    IF order = <<>> THEN st
    ELSE TrackerFold(t, p, Tail(order),
                     IF MethodName(t[Head(order)].kind) = "visit_Name"
                     THEN visit_Name(st, t, p, Head(order))
                     ELSE st)

\* visitor.visit(node) on a fresh tracker: the whole subtree of node is walked.
TrackerVisit(t, p, node) == TrackerFold(t, p, VisitOrder(t, node, {"Name"}), NewTracker)

(***************************************************************************)
(* Unused_Variable_Checker.                                                *)
(***************************************************************************)
UnusedMessage(name) == <<"Unused variable: ", name>>

\* The violations the loop over visitor.unused_names.items() adds.
Findings(visitor) ==
    {Violation(visitor.name_nodes[name], UnusedMessage(name)) :
        name \in {n \in DOMAIN visitor.unused_names : visitor.unused_names[n]}}

RECURSIVE AddAll(_, _)
AddAll(viol, vs) ==
    IF vs = {} THEN viol
    ELSE LET v == CHOOSE w \in vs : TRUE IN AddAll(SetAdd(viol, v), vs \ {v})

check_for_unused_variables(t, p, node, viol) ==
    AddAll(viol, Findings(TrackerVisit(t, p, node)))

\* The methods Unused_Variable_Checker defines.
UVC_Methods == {"visit_Modules", "visit_ClassDef", "visit_FunctionDef"}

\* Unused_Variable_Checker.visit(tree): each handler checks its node and then
\* calls generic_visit, so every node of the tree is visited.
RECURSIVE UVC_Fold(_, _, _, _)
UVC_Fold(t, p, order, viol) ==
    IF order = <<>> THEN viol
    ELSE UVC_Fold(t, p, Tail(order),
                  IF MethodName(t[Head(order)].kind) \in UVC_Methods
                  THEN check_for_unused_variables(t, p, Head(order), viol)
                  ELSE viol)

UVC_visit(t, p, viol) == UVC_Fold(t, p, VisitOrder(t, 1, {}), viol)

\* checker.visit(tree) for a registered checker.
CheckerVisit(c, t, p, viol) ==
    IF c = "W001" THEN SDC_visit(t, p, viol) ELSE UVC_visit(t, p, viol)

(***************************************************************************)
(* The visit of one checker over one tree, as a specification of its own:  *)
(* the tree is drawn from a family and checker.visit(tree) is applied to   *)
(* it.                                                                     *)
(***************************************************************************)
NoSource == [file |-> "", ok |-> FALSE, text |-> <<>>]

\* A set literal as the only statement of a module; a Name stands for the
\* elements that are not constants.
Elements == {Node("Constant", 2, "", "", v) : v \in Values}
              \cup {Node("Name", 2, "x", "Load", NoValue)}

SetTrees ==
    {<<ModuleNode, Node("Set", 1, "", "", NoValue)>> \o elts :
        elts \in UNION {[1..n -> Elements] : n \in 0..MaxElts}}

InitVisit(trees) ==
    /\ tree \in trees
    /\ parseNo = 1
    /\ violations = NoViolations
    /\ pc = "parsed"
    /\ todo = {}
    /\ cur = ""
    /\ toPrint = {}
    /\ out = <<>>
    /\ started = {}
    /\ runs = 0
    /\ src = NoSource
    /\ prevSrc = NoSource
    /\ prevOut = <<>>
    /\ execs = 1

VisitOnly(c) ==
    /\ pc = "parsed"
    /\ violations' = [violations EXCEPT ![c] = CheckerVisit(c, tree, parseNo, @)]
    /\ pc' = "visited"
    /\ cur' = c
    /\ UNCHANGED <<tree, parseNo, todo, toPrint, out, started, runs, src,
                   prevSrc, prevOut, execs>>

InitSet == InitVisit(SetTrees)

NextSet == VisitOnly("W001")

SpecSet == InitSet /\ [][NextSet]_vars

\* The set-literal nodes visit_Set is called on: those under no other set literal.
HandledSets(t) ==
    {s \in 1..Len(t) : t[s].kind = "Set" /\ \A a \in Ancestors(t, s) : t[a].kind # "Set"}

\* The constant elements of set literal s whose value equals that of an earlier
\* constant element of s.
LaterOccurrences(t, s) ==
    {i \in 1..Len(t) :
        /\ t[i].parent = s /\ t[i].kind = "Constant"
        /\ \E j \in 1..(i - 1) :
              t[j].parent = s /\ t[j].kind = "Constant" /\ PyEq(t[j].value, t[i].value)}

Held(c) == BagToSet(violations[c])

\* C1: after SetDuplicateItemChecker has visited the tree, its violations are
\* exactly one per constant element that repeats the value of an earlier
\* constant element of the same set literal, each on that element's own node:
\* first occurrences and non-constant elements are not flagged.
C1_ExactlyLaterOccurrences ==
    (pc = "visited" /\ cur = "W001") =>
        /\ {v.node : v \in Held("W001")} =
              {Ref(parseNo, i) : i \in UNION {LaterOccurrences(tree, s) : s \in HandledSets(tree)}}
        /\ \A v \in Held("W001") : v.message = DuplicateMessage(tree[v.node.idx].value)
        /\ Cardinality(Held("W001")) =
              Cardinality(UNION {LaterOccurrences(tree, s) : s \in HandledSets(tree)})

IntElt(n) == Node("Constant", 2, "", "", [ty |-> "int", v |-> n])

\* {1, 2, 2, 3, 1} has been visited and holds its two violations.
C1_Witness ==
    /\ pc = "visited" /\ cur = "W001"
    /\ tree = <<ModuleNode, Node("Set", 1, "", "", NoValue),
                IntElt(1), IntElt(2), IntElt(2), IntElt(3), IntElt(1)>>
    /\ {v.node.idx : v \in Held("W001")} = {5, 7}

(***************************************************************************)
(* Trees of scopes and names, for the visit of Unused_Variable_Checker.    *)
(* The nested scopes are functions here; nested.py below has a class.      *)
(***************************************************************************)
ScopeLabels ==
    {Node(k, 0, "", "", NoValue) : k \in {"FunctionDef"}}
      \cup {Node("Name", 0, "x", c, NoValue) : c \in {"Store", "Load", "Del"}}
      \cup {Node("Name", 0, "y", "Store", NoValue)}

\* The nodes a new last node can hang under: the last node and its ancestors,
\* the names excepted (a Name has no child nodes but its context).
OpenNodes(t) == {i \in {Len(t)} \cup Ancestors(t, Len(t)) : t[i].kind # "Name"}

Extensions(t, labels) ==
    {Append(t, [l EXCEPT !.parent = i]) : i \in OpenNodes(t), l \in labels}

\* The tree under analysis gains one more node, at the end of the text.
AddNode(labels, bound) ==
    /\ pc = "parsed"
    /\ Len(tree) <= bound
    /\ \E t \in Extensions(tree, labels) : tree' = t
    /\ UNCHANGED <<parseNo, violations, pc, todo, cur, toPrint, out, started,
                   runs, src, prevSrc, prevOut, execs>>

InitScope == InitVisit({<<ModuleNode>>})

NextScope == AddNode(ScopeLabels, MaxScopeNodes) \/ VisitOnly("W002")

SpecScope == InitScope /\ [][NextScope]_vars

\* The scope-introducing kinds: module root, class body, function body.
ScopeKinds == {"Module", "ClassDef", "FunctionDef"}

Scopes(t) == {s \in 1..Len(t) : t[s].kind \in ScopeKinds}

\* The nodes of scope s's own body: those of its subtree under no nested scope.
OwnBody(t, s) ==
    {i \in Subtree(t, s) \ {s} :
        \A a \in Ancestors(t, i) : (a \in Subtree(t, s) /\ a # s) => t[a].kind \notin ScopeKinds}

Writes(t, nodes, name) ==
    {i \in nodes : t[i].kind = "Name" /\ t[i].id = name /\ t[i].ctx = "Store"}

Reads(t, nodes, name) ==
    {i \in nodes : t[i].kind = "Name" /\ t[i].id = name /\ t[i].ctx # "Store"}

Min(S) == CHOOSE m \in S : \A k \in S : m <= k

Flagged(c, name, nodes) ==
    {v \in Held(c) : v.message = UnusedMessage(name) /\ v.node \in {Ref(parseNo, i) : i \in nodes}}

\* C2: scopes are analysed independently.  When an outer function and a
\* function nested in it each write a name, the outer function's own body never
\* reads it and the nested function reads it, the outer write is flagged
\* 'Unused variable: <name>' and the inner write is not.
C2_ScopesIndependent ==
    (pc = "visited" /\ cur = "W002") =>
        \A outer \in Scopes(tree), inner \in Scopes(tree), name \in Names :
            ( /\ tree[outer].kind # "Module"
              /\ inner \in Subtree(tree, outer) /\ inner # outer
              /\ Writes(tree, OwnBody(tree, outer), name) # {}
              /\ Reads(tree, OwnBody(tree, outer), name) = {}
              /\ Writes(tree, OwnBody(tree, inner), name) # {}
              /\ Reads(tree, OwnBody(tree, inner), name) # {} )
            => /\ Flagged("W002", name, Writes(tree, OwnBody(tree, outer), name)) # {}
               /\ Flagged("W002", name, Writes(tree, OwnBody(tree, inner), name)) = {}

\* C3: for every scope node and every name written and never read anywhere in
\* the scope's subtree, the finished traversal holds exactly one violation
\* 'Unused variable: <name>' for it, on the name's first write in the subtree.
C3_UnusedFlaggedAtFirstWrite ==
    (pc = "visited" /\ cur = "W002") =>
        \A s \in Scopes(tree), name \in Names :
            ( /\ Writes(tree, Subtree(tree, s), name) # {}
              /\ Reads(tree, Subtree(tree, s), name) = {} )
            => LET first == Min(Writes(tree, Subtree(tree, s), name))
               IN  CopiesIn(Violation(Ref(parseNo, first), UnusedMessage(name)),
                            violations["W002"]) = 1

\* C3 for the class and function scopes alone.
C3_BelowModule ==
    (pc = "visited" /\ cur = "W002") =>
        \A s \in Scopes(tree), name \in Names :
            ( /\ tree[s].kind # "Module"
              /\ Writes(tree, Subtree(tree, s), name) # {}
              /\ Reads(tree, Subtree(tree, s), name) = {} )
            => LET first == Min(Writes(tree, Subtree(tree, s), name))
               IN  CopiesIn(Violation(Ref(parseNo, first), UnusedMessage(name)),
                            violations["W002"]) = 1

\* Whether, along the tracker's walk of `order` from state st, the flag of
\* `name` never goes from false back to true.
RECURSIVE StaysFalse(_, _, _, _, _)
StaysFalse(t, p, order, st, name) ==
    IF order = <<>> THEN TRUE
    ELSE LET after == TrackerFold(t, p, <<Head(order)>>, st)
         IN  /\ (name \in DOMAIN st.unused_names /\ st.unused_names[name] = FALSE)
                  => (name \in DOMAIN after.unused_names /\ after.unused_names[name] = FALSE)
             /\ StaysFalse(t, p, Tail(order), after, name)

\* C4: the tracker is order-insensitive.  For every scope and every name with
\* an occurrence in a non-write context in the scope's subtree, before or after
\* its writes, the tracker ends with the name's flag false and the scope's
\* check adds no violation for the name; and once the flag is false no later
\* node of the walk sets it back to true.
C4_ReadAnywhereClearsFlag ==
    (pc = "visited" /\ cur = "W002") =>
        \A s \in Scopes(tree), name \in Names :
            LET visitor == TrackerVisit(tree, parseNo, s)
            IN  /\ Reads(tree, Subtree(tree, s), name) # {} =>
                      /\ name \in DOMAIN visitor.unused_names
                      /\ visitor.unused_names[name] = FALSE
                      /\ \A v \in Findings(visitor) : v.message # UnusedMessage(name)
                      /\ Flagged("W002", name, Writes(tree, OwnBody(tree, s), name)) = {}
                /\ StaysFalse(tree, parseNo, VisitOrder(tree, s, {"Name"}), NewTracker, name)

\* A function whose body reads x before it writes x twice has been checked, and
\* x is not flagged.
C4_Witness ==
    /\ pc = "visited" /\ cur = "W002"
    /\ tree = <<ModuleNode, Node("FunctionDef", 1, "", "", NoValue),
                Node("Name", 2, "x", "Load", NoValue),
                Node("Name", 2, "x", "Store", NoValue),
                Node("Name", 2, "x", "Store", NoValue)>>
    /\ TrackerFold(tree, parseNo, <<3>>, NewTracker).unused_names["x"] = FALSE
    /\ TrackerVisit(tree, parseNo, 2).unused_names["x"] = FALSE
    /\ Held("W002") = {}

\* C5: the traversal runs check_for_unused_variables on the module root, so a
\* name written at module level and never read anywhere in the module is
\* reported as 'Unused variable: <name>'.
C5_ModuleRootChecked ==
    (pc = "visited" /\ cur = "W002") =>
        /\ Findings(TrackerVisit(tree, parseNo, 1)) \subseteq Held("W002")
        /\ \A name \in Names :
              ( /\ Writes(tree, OwnBody(tree, 1), name) # {}
                /\ Reads(tree, 1..Len(tree), name) = {} )
              => \E v \in Held("W002") : v.message = UnusedMessage(name)

(***************************************************************************)
(* Linter.  The source files it is run on: the text of a file is given by  *)
(* the tree ast.parse makes of it, or is malformed.                        *)
(***************************************************************************)
Source(file, text) == [file |-> file, ok |-> TRUE, text |-> text]

\* {2, 2, 1, True}
DupsPy ==
    Source("dups.py",
           <<ModuleNode, Node("Set", 1, "", "", NoValue),
             IntElt(2), IntElt(2), IntElt(1),
             Node("Constant", 2, "", "", [ty |-> "bool", v |-> 1])>>)

\* def f(): x = {1, 1}
BothPy ==
    Source("both.py",
           <<ModuleNode, Node("FunctionDef", 1, "", "", NoValue),
             Node("Name", 2, "x", "Store", NoValue),
             Node("Set", 2, "", "", NoValue),
             Node("Constant", 4, "", "", [ty |-> "int", v |-> 1]),
             Node("Constant", 4, "", "", [ty |-> "int", v |-> 1])>>)

\* class C:
\*     def m(self): y = 1
NestedPy ==
    Source("nested.py",
           <<ModuleNode, Node("ClassDef", 1, "", "", NoValue),
             Node("FunctionDef", 2, "", "", NoValue),
             Node("Name", 3, "y", "Store", NoValue)>>)

\* def f():
\*     x = 1
\*     return x
CleanPy ==
    Source("clean.py",
           <<ModuleNode, Node("FunctionDef", 1, "", "", NoValue),
             Node("Name", 2, "x", "Store", NoValue),
             Node("Name", 2, "x", "Load", NoValue)>>)

\* def (:
BadPy == [file |-> "bad.py", ok |-> FALSE, text |-> <<>>]

Files == {DupsPy, BothPy, NestedPy, CleanPy, BadPy}

\* ast.parse(source_file) returns a tree.
Parses(s) == s.ok

\* node.lineno and node.col_offset: where the node stands in its own text.
Position(node) == node.idx

\* The line print_violations prints for one violation.
Line(file_name, issue_code, v) ==
    [file |-> file_name, pos |-> Position(v.node), code |-> issue_code,
     message |-> v.message]

\* print_violations iterating over the violations of every checker.
PendingAll(c, viol) == UNION {BagToSet(viol[d]) : d \in Checkers}

\* The violations print_violations iterates over: all the checker holds.
Pending(c, viol) == BagToSet(viol[c])

Init ==
    /\ tree = <<>>
    /\ parseNo = 0
    /\ violations = NoViolations
    /\ pc = "idle"
    /\ todo = {}
    /\ cur = ""
    /\ toPrint = {}
    /\ out = <<>>
    /\ started = {}
    /\ runs = 0
    /\ src = NoSource
    /\ prevSrc = NoSource
    /\ prevOut = <<>>
    /\ execs = 1

\* run(source_path) is called and reads the file (lines 44-47); an earlier call
\* has returned or raised.
Run(limit) ==
    /\ pc \in {"idle", "done", "parse_error", "visit_error"}
    /\ runs < limit
    /\ \E f \in Files : src' = f
    /\ runs' = runs + 1
    /\ out' = <<>>
    /\ started' = {}
    /\ todo' = {}
    /\ cur' = ""
    /\ toPrint' = {}
    /\ pc' = "read"
    /\ UNCHANGED <<tree, parseNo, violations, prevSrc, prevOut, execs>>

\* tree = ast.parse(source_file) succeeds: the loop over self.checkers begins.
ParseOk ==
    /\ pc = "read"
    /\ Parses(src)
    /\ tree' = src.text
    /\ parseNo' = parseNo + 1
    /\ todo' = Checkers
    /\ pc' = "loop"
    /\ UNCHANGED <<violations, cur, toPrint, out, started, runs, src, prevSrc,
                   prevOut, execs>>

\* The parse moved into the loop body, after a checker has been taken.
ParseFailInLoop ==
    /\ pc = "read"
    /\ ~Parses(src)
    /\ \E c \in Checkers : started' = {c} /\ cur' = c
    /\ pc' = "parse_error"
    /\ UNCHANGED <<tree, parseNo, violations, todo, toPrint, out, runs, src,
                   prevSrc, prevOut, execs>>

\* ast.parse raises SyntaxError, which run does not catch.
ParseFail ==
    /\ pc = "read"
    /\ ~Parses(src)
    /\ pc' = "parse_error"
    /\ UNCHANGED <<tree, parseNo, violations, todo, cur, toPrint, out, started,
                   runs, src, prevSrc, prevOut, execs>>

\* The loop takes the next checker, in the iteration order of the set
\* self.checkers, and checker.visit(tree) returns.
Visit ==
    /\ pc = "loop"
    /\ \E c \in todo :
          /\ todo' = todo \ {c}
          /\ cur' = c
          /\ started' = started \cup {c}
          /\ violations' = [violations EXCEPT ![c] = CheckerVisit(c, tree, parseNo, @)]
          /\ toPrint' = Pending(c, violations')
    /\ pc' = "print"
    /\ UNCHANGED <<tree, parseNo, out, runs, src, prevSrc, prevOut, execs>>

\* checker.visit(tree) raises (a RecursionError on a deeply nested tree, say):
\* run does not catch it, and the checker may or may not have added violations.
VisitFail ==
    /\ pc = "loop"
    /\ \E c \in todo :
          /\ todo' = todo \ {c}
          /\ cur' = c
          /\ started' = started \cup {c}
          /\ \/ violations' = violations
             \/ violations' = [violations EXCEPT ![c] = CheckerVisit(c, tree, parseNo, @)]
    /\ pc' = "visit_error"
    /\ UNCHANGED <<tree, parseNo, toPrint, out, runs, src, prevSrc, prevOut, execs>>

\* One turn of the loop of print_violations, in the iteration order of the set
\* checker.violations.
PrintLine ==
    /\ pc = "print"
    /\ \E v \in toPrint :
          /\ out' = Append(out, Line(src.file, cur, v))
          /\ toPrint' = toPrint \ {v}
    /\ UNCHANGED <<tree, parseNo, violations, pc, todo, cur, started, runs, src,
                   prevSrc, prevOut, execs>>

\* print_violations returning before its loop is exhausted.
PrintDoneEarly ==
    /\ pc = "print"
    /\ pc' = "loop"
    /\ toPrint' = {}
    /\ UNCHANGED <<tree, parseNo, violations, todo, cur, out, started,
                   runs, src, prevSrc, prevOut, execs>>

\* print_violations returns: back to the head of the loop of run.
PrintDone ==
    /\ pc = "print"
    /\ toPrint = {}
    /\ pc' = "loop"
    /\ UNCHANGED <<tree, parseNo, violations, todo, cur, toPrint, out, started,
                   runs, src, prevSrc, prevOut, execs>>

\* The loop of run is exhausted and run returns.
RunDone ==
    /\ pc = "loop"
    /\ todo = {}
    /\ pc' = "done"
    /\ cur' = ""
    /\ UNCHANGED <<tree, parseNo, violations, todo, toPrint, out, started, runs,
                   src, prevSrc, prevOut, execs>>

Next ==
    \/ Run(MaxRuns)
    \/ ParseOk
    \/ ParseFail
    \/ Visit
    \/ VisitFail
    \/ PrintLine
    \/ PrintDone
    \/ RunDone

Spec == Init /\ [][Next]_vars

(***************************************************************************)
(* main() executed again: a new process, with a new Linter and new         *)
(* checkers, after an execution that ran to its end.  What that execution  *)
(* read and printed is kept for comparison.                                *)
(***************************************************************************)
NewExecution ==
    /\ pc = "done"
    /\ execs < MaxExecs
    /\ execs' = execs + 1
    /\ prevSrc' = src
    /\ prevOut' = out
    /\ tree' = <<>>
    /\ parseNo' = 0
    /\ violations' = NoViolations
    /\ pc' = "idle"
    /\ todo' = {}
    /\ cur' = ""
    /\ toPrint' = {}
    /\ out' = <<>>
    /\ started' = {}
    /\ runs' = 0
    /\ src' = NoSource

\* main() calls run once.
NextMain ==
    \/ Run(1)
    \/ ParseOk
    \/ ParseFail
    \/ Visit
    \/ VisitFail
    \/ PrintLine
    \/ PrintDone
    \/ RunDone
    \/ NewExecution

SpecMain == Init /\ [][NextMain]_vars

Range(q) == {q[k] : k \in 1..Len(q)}

\* The lines of each checker stand together in q.
Grouped(q) ==
    \A i \in 1..Len(q), k \in 1..Len(q) :
        (i < k /\ q[i].code = q[k].code) => \A j \in i..k : q[j].code = q[i].code

\* Two executions on the same source text have run to their end.
SameInputTwice == execs >= 2 /\ pc = "done" /\ src = prevSrc

Finished == started \ (IF pc = "visit_error" THEN {cur} ELSE {})

LinesOf(c) == {Line(src.file, c, v) : v \in Held(c)}

\* C7: when the parse fails, run ends with the parse error, no checker's visit
\* having started and no line having been printed.
C7_NothingAfterFailedParse ==
    (pc \notin {"idle", "read"} /\ ~Parses(src)) =>
        /\ pc = "parse_error"
        /\ out = <<>>
        /\ started = {}

\* A second run on the same Linter fails to parse while the checkers still hold
\* violations of the first run.
C7_Witness ==
    /\ pc = "parse_error"
    /\ runs = 2
    /\ Held("W001") # {}

\* The nodes Unused_Variable_Checker's handlers are called on.
HandledScopes(t) == {s \in 1..Len(t) : MethodName(t[s].kind) \in UVC_Methods}

\* C8: a checker's violations form a set keyed by (node, message): no entry is
\* held twice, and everything a completed traversal added is held, violations
\* that differ in node or message as distinct entries.
C8_ViolationsAreASet ==
    /\ \A c \in Checkers : \A v \in Held(c) : CopiesIn(v, violations[c]) = 1
    /\ "W002" \in Finished =>
          \A s \in HandledScopes(tree) :
              Findings(TrackerVisit(tree, parseNo, s)) \subseteq Held("W002")
    /\ "W001" \in Finished =>
          \A s \in HandledSets(tree) : \A i \in LaterOccurrences(tree, s) :
              Violation(Ref(parseNo, i), DuplicateMessage(tree[i].value)) \in Held("W001")

\* On nested.py the class and the function in it both add the violation of the
\* same first write of y, and it is held once.
C8_Witness ==
    /\ pc = "print" /\ cur = "W002" /\ src = NestedPy
    /\ Findings(TrackerVisit(tree, parseNo, 2)) = Findings(TrackerVisit(tree, parseNo, 3))
    /\ Findings(TrackerVisit(tree, parseNo, 2)) # {}
    /\ BagCardinality(violations["W002"]) = 1

\* C9: run handles the checkers one after another.  Every printed line is of a
\* checker whose traversal has completed; when a traversal starts, and when
\* run ends, every checker taken before has printed all its violations; after
\* a failed traversal the failing checker and the checkers not yet taken have
\* printed nothing, and the lines of the checkers completed before are there.
C9_OneCheckerAfterAnother ==
    /\ \A k \in 1..Len(out) : out[k].code \in Finished
    /\ \A c \in Finished \ {cur} : LinesOf(c) \subseteq Range(out)
    /\ (pc \in {"loop", "done"} /\ cur \in Finished) => LinesOf(cur) \subseteq Range(out)
    /\ Grouped(out)
    /\ pc = "visit_error" =>
          /\ \A k \in 1..Len(out) : out[k].code \notin todo \cup {cur}
          /\ \A c \in Finished : LinesOf(c) \subseteq Range(out)

\* The second checker's traversal has failed after the first checker printed
\* its lines.
C9_Witness ==
    /\ pc = "visit_error"
    /\ Finished # {}
    /\ out # <<>>
    /\ \A k \in 1..Len(out) : out[k].code # cur

\* C10: in every run, the violations a checker holds and prints refer to nodes
\* of the tree parsed by that run, none to nodes of a tree of an earlier run.
C10_NoStaleViolations ==
    pc \in {"loop", "print", "done"} =>
        /\ \A c \in Finished : \A v \in Held(c) : v.node.tree = parseNo
        /\ \A v \in toPrint : v.node.tree = parseNo

====
